---- MODULE Spec2Model ----
(***************************************************************************)
(* VoxSplit client (ziadamal/audiosplitter, frontend): the zustand store,  *)
(* the useAudioAnalysis / useAudioExport / useAudioPreview hooks and the   *)
(* components that drive them (App, FileUpload, TrackManager, TrackItem,   *)
(* AudioPlayer).                                                           *)
(*                                                                         *)
(* Numbers: every fractional quantity is kept in hundredths, so a track    *)
(* volume of 1.0 is 100, a boost of 3.0 dB is 300 and a noise reduction    *)
(* level of 0.5 is 50.  A nullable string is the string NULL; a nullable   *)
(* object (the analysis result, the uploaded File) is a sequence of length *)
(* 0 or 1.                                                                 *)
(***************************************************************************)
EXTENDS Integers, Sequences, FiniteSets, TLC

VARIABLES
    env,        \* import.meta.env, fixed when the client is built
    store,      \* the zustand store (useStore.ts)
    player,     \* AudioPlayer's state, the state of its two hooks and the
                \* promises its handlers wait for
    inst,       \* the FileUpload instances and their useAudioAnalysis hook
    polls,      \* status requests in flight
    dels,       \* job ids whose deleteJob request (cancelAnalysis) is in flight
    sjob,       \* the server's job table, in the order the jobs were created
    held        \* history: the job whose status response wrote the status and
                \* the progress the store holds (NULL if other code wrote them)

vars == <<env, store, player, inst, polls, dels, sjob, held>>

NULL == "null"
None == <<>>
Some(v) == <<v>>

Min(a, b) == IF a < b THEN a ELSE b
Max(a, b) == IF a > b THEN a ELSE b

RemoveAt(seq, k) == SubSeq(seq, 1, k - 1) \o SubSeq(seq, k + 1, Len(seq))

(***************************************************************************)
(* A JavaScript string whose text matters (a file name) is the sequence of *)
(* its UTF-16 code units.  Units gives it for a string of printable ASCII. *)
(***************************************************************************)
CharAt(s, k) == SubSeq(s, k, k)

\* The printable ASCII characters from U+0020 to U+005F and from U+0061 to
\* U+007E (a string of this module cannot hold U+0060).
AsciiTo5F ==
    " !\"#$%&'()*+,-./0123456789:;<=>?@ABCDEFGHIJKLMNOPQRSTUVWXYZ[\\]^_"

AsciiFrom61 == "abcdefghijklmnopqrstuvwxyz{|}~"

CodeOf(c) ==
    IF \E k \in 1..Len(AsciiTo5F) : CharAt(AsciiTo5F, k) = c
    THEN 31 + (CHOOSE k \in 1..Len(AsciiTo5F) : CharAt(AsciiTo5F, k) = c)
    ELSE 96 + (CHOOSE k \in 1..Len(AsciiFrom61) : CharAt(AsciiFrom61, k) = c)

Units(s) == [k \in 1..Len(s) |-> CodeOf(CharAt(s, k))]

\* A File is its name and its size in bytes.
TalkFile == [name |-> Units("talk.mp3"), size |-> 1024]

(***************************************************************************)
(* The store: useStore.ts                                                  *)
(***************************************************************************)
initialState ==
    [ uploadedFile        |-> None,
      jobId               |-> NULL,
      status              |-> "pending",
      progress            |-> 0,
      currentStep         |-> "",
      result              |-> None,
      tracks              |-> <<>>,
      mainSpeakerBoostDb  |-> 300,
      noiseReductionLevel |-> 0,
      outputFormat        |-> "wav",
      normalize           |-> TRUE,
      isExporting         |-> FALSE,
      exportUrl           |-> NULL,
      error               |-> NULL ]

SetUploadedFile(s, file) == [s EXCEPT !.uploadedFile = file]
SetJobId(s, jobId) == [s EXCEPT !.jobId = jobId]
SetStatus(s, status) == [s EXCEPT !.status = status]
SetProgress(s, progress) == [s EXCEPT !.progress = progress]
SetCurrentStep(s, currentStep) == [s EXCEPT !.currentStep = currentStep]
SetError(s, error) == [s EXCEPT !.error = error]
SetIsExporting(s, isExporting) == [s EXCEPT !.isExporting = isExporting]
SetExportUrl(s, exportUrl) == [s EXCEPT !.exportUrl = exportUrl]

\* Track defaults that mark the first track as main whatever its type.
DefaultTrack_FirstIsMain(track, index) ==
    [ id     |-> track.id,
      type   |-> track.type,
      muted  |-> FALSE,
      solo   |-> FALSE,
      volume |-> 100,
      isMain |-> (index = 0) ]

\* A track of the UI state: the server's track (of which id and type are
\* kept; the spread carries the other fields along untouched) with defaults.
DefaultTrack(track, index) ==
    [ id     |-> track.id,
      type   |-> track.type,
      muted  |-> FALSE,
      solo   |-> FALSE,
      volume |-> 100,
      isMain |-> (index = 0 /\ track.type = "speaker") ]

\* A setResult that leaves the tracks when the result is null.
SetResult_KeepsTracks(s, result) ==
    IF result # None
    THEN [s EXCEPT !.result = result,
                   !.tracks = [i \in 1..Len(result[1].tracks) |->
                                  DefaultTrack(result[1].tracks[i], i - 1)]]
    ELSE [s EXCEPT !.result = None]

SetResult(s, result) ==
    IF result # None
    THEN [s EXCEPT !.result = result,
                   !.tracks = [i \in 1..Len(result[1].tracks) |->
                                  DefaultTrack(result[1].tracks[i], i - 1)]]
    ELSE [s EXCEPT !.result = None, !.tracks = <<>>]

SetTracks(s, tracks) == [s EXCEPT !.tracks = tracks]

ToggleTrackMute(s, trackId) ==
    [s EXCEPT !.tracks = [i \in 1..Len(s.tracks) |->
        IF s.tracks[i].id = trackId
        THEN [s.tracks[i] EXCEPT !.muted = ~s.tracks[i].muted]
        ELSE s.tracks[i]]]

\* A solo toggle that also takes the solo flag off every other track.
ToggleTrackSolo_Exclusive(s, trackId) ==
    [s EXCEPT !.tracks = [i \in 1..Len(s.tracks) |->
        IF s.tracks[i].id = trackId
        THEN [s.tracks[i] EXCEPT !.solo = ~s.tracks[i].solo]
        ELSE [s.tracks[i] EXCEPT !.solo = FALSE]]]

ToggleTrackSolo(s, trackId) ==
    [s EXCEPT !.tracks = [i \in 1..Len(s.tracks) |->
        IF s.tracks[i].id = trackId
        THEN [s.tracks[i] EXCEPT !.solo = ~s.tracks[i].solo]
        ELSE s.tracks[i]]]

\* setTrackVolume without the clamp.
SetTrackVolume_Unclamped(s, trackId, volume) ==
    [s EXCEPT !.tracks = [i \in 1..Len(s.tracks) |->
        IF s.tracks[i].id = trackId
        THEN [s.tracks[i] EXCEPT !.volume = volume]
        ELSE s.tracks[i]]]

SetTrackVolume(s, trackId, volume) ==
    [s EXCEPT !.tracks = [i \in 1..Len(s.tracks) |->
        IF s.tracks[i].id = trackId
        THEN [s.tracks[i] EXCEPT !.volume = Max(0, Min(200, volume))]
        ELSE s.tracks[i]]]

\* setMainSpeaker that marks the track without unmarking the others.
SetMainSpeaker_KeepsOthers(s, trackId) ==
    [s EXCEPT !.tracks = [i \in 1..Len(s.tracks) |->
        [s.tracks[i] EXCEPT !.isMain = (s.tracks[i].isMain \/ s.tracks[i].id = trackId)]]]

SetMainSpeaker(s, trackId) ==
    [s EXCEPT !.tracks = [i \in 1..Len(s.tracks) |->
        [s.tracks[i] EXCEPT !.isMain = (s.tracks[i].id = trackId)]]]

SetMainSpeakerBoostDb(s, db) == [s EXCEPT !.mainSpeakerBoostDb = db]
SetNoiseReductionLevel(s, level) == [s EXCEPT !.noiseReductionLevel = level]
SetOutputFormat(s, format) == [s EXCEPT !.outputFormat = format]
SetNormalize(s, normalize) == [s EXCEPT !.normalize = normalize]

\* A TrackConfig that takes is_main from the solo flag.
TrackConfigOf_MainFromSolo(track) ==
    [ track_id |-> track.id,
      muted    |-> track.muted,
      solo     |-> track.solo,
      volume   |-> track.volume,
      is_main  |-> track.solo ]

\* A TrackConfig whose solo flag was resolved against the muted flag.
TrackConfigOf_MuteWins(track) ==
    [ track_id |-> track.id,
      muted    |-> track.muted,
      solo     |-> track.solo /\ ~track.muted,
      volume   |-> track.volume,
      is_main  |-> track.isMain ]

TrackConfigOf(track) ==
    [ track_id |-> track.id,
      muted    |-> track.muted,
      solo     |-> track.solo,
      volume   |-> track.volume,
      is_main  |-> track.isMain ]

GetMixConfig(s) ==
    [ job_id                |-> IF s.jobId = NULL THEN "" ELSE s.jobId,
      tracks                |-> [i \in 1..Len(s.tracks) |-> TrackConfigOf(s.tracks[i])],
      main_speaker_boost_db |-> s.mainSpeakerBoostDb,
      noise_reduction_level |-> s.noiseReductionLevel,
      output_format         |-> s.outputFormat,
      normalize             |-> s.normalize ]

\* A reset that leaves the main speaker where it is.
ResetAllTracks_KeepsMain(s) ==
    SetNoiseReductionLevel(
        SetMainSpeakerBoostDb(
            SetTracks(s, [i \in 1..Len(s.tracks) |->
                [s.tracks[i] EXCEPT !.muted = FALSE, !.solo = FALSE, !.volume = 100]]),
            300),
        0)

\* TrackManager.resetAllTracks: setTracks, setMainSpeakerBoostDb(3.0),
\* setNoiseReductionLevel(0).
ResetAllTracks(s) ==
    SetNoiseReductionLevel(
        SetMainSpeakerBoostDb(
            SetTracks(s, [i \in 1..Len(s.tracks) |->
                [s.tracks[i] EXCEPT !.muted = FALSE, !.solo = FALSE, !.volume = 100,
                                    !.isMain = (i - 1 = 0 /\ s.tracks[i].type = "speaker")]]),
            300),
        0)

(***************************************************************************)
(* App: what it renders                                                    *)
(***************************************************************************)
IsProcessing(s) == s.status \in {"processing", "separating", "diarizing"}
IsComplete(s) == s.status = "complete" /\ s.result # None

(***************************************************************************)
(* services/api: the parts of audioApi that compute on the client          *)
(***************************************************************************)
Falsy(x) == x = NULL \/ x = ""

\* The builds: VITE_API_URL not set (undefined), and set as the deployment
\* guide tells to.
Envs == { [VITE_API_URL |-> NULL], [VITE_API_URL |-> "http://localhost:8000"] }

\* import.meta.env.VITE_API_URL || 'https://voxsplit-backend.onrender.com'
API_BASE_URL ==
    IF Falsy(env.VITE_API_URL) THEN "https://voxsplit-backend.onrender.com"
    ELSE env.VITE_API_URL

\* `http` followed by anything is returned as it is; the server paths used
\* here start with "/" and get the base URL in front.
GetAudioUrl(path) ==
    IF Len(path) >= 4 /\ SubSeq(path, 1, 4) = "http" THEN path ELSE API_BASE_URL \o path

\* An error text that prefers the transport's message to the server detail.
ErrorText_MessageFirst(err, fallback) ==
    IF ~Falsy(err.message) THEN err.message
    ELSE IF ~Falsy(err.detail) THEN err.detail
    ELSE fallback

\* error.response?.data?.detail || error.message || fallback
ErrorText(err, fallback) ==
    IF ~Falsy(err.detail) THEN err.detail
    ELSE IF ~Falsy(err.message) THEN err.message
    ELSE fallback

\* The ways a request can fail: with a server detail, with only the
\* transport's message, with neither.
Errors ==
    { [detail |-> "Job not found", message |-> "Request failed with status code 404"],
      [detail |-> NULL, message |-> "Network Error"],
      [detail |-> NULL, message |-> NULL] }

(***************************************************************************)
(* The server, as far as the client sees it (not part of the sources; from *)
(* the design's sections 4.1 and 4.4).                                     *)
(***************************************************************************)
BoolText(b) == IF b THEN "true" ELSE "false"

TrackConfigText(c) ==
    c.track_id \o ":" \o BoolText(c.muted) \o "," \o BoolText(c.solo) \o ","
        \o ToString(c.volume) \o "," \o BoolText(c.is_main)

RECURSIVE TrackConfigsText(_)
TrackConfigsText(cs) ==
    IF cs = <<>> THEN "" ELSE TrackConfigText(Head(cs)) \o ";" \o TrackConfigsText(Tail(cs))

\* The body of a render request, as text: one text per MixConfig value.
MixConfigText(m) ==
    m.job_id \o "/" \o TrackConfigsText(m.tracks) \o "/" \o ToString(m.main_speaker_boost_db)
        \o "/" \o ToString(m.noise_reduction_level) \o "/" \o m.output_format
        \o "/" \o BoolText(m.normalize)

\* A preview artifact is named after the request it renders.
ServerPreviewUrl(req) ==
    "/api/audio/" \o req.job_id \o "/preview/" \o MixConfigText(req.mix_config)
        \o "/" \o ToString(req.start_time) \o "/" \o ToString(req.duration)

ServerExportUrl(req) == "/api/audio/" \o req.job_id \o "/export." \o req.output_format

(***************************************************************************)
(* useAudioPreview, useAudioExport and AudioPlayer                         *)
(***************************************************************************)
MaxPlays == 2
MaxDetached == 2

\* A mounted AudioPlayer starts with this state; while none is mounted the
\* variable holds it too, with the requests of the unmounted ones.
initialPlayer ==
    [ previewUrl           |-> NULL,     \* AudioPlayer
      hasGeneratedPreview  |-> FALSE,
      previewError         |-> NULL,
      isPlaying            |-> FALSE,
      isGenerating         |-> FALSE,    \* useAudioPreview
      isExporting          |-> FALSE,    \* useAudioExport
      previewReq           |-> None,     \* the preview request in flight
      exportReq            |-> None,     \* the export request in flight
      playsPending         |-> 0,        \* handlePlayPause calls awaiting audio.play()
      detached             |-> <<>> ]    \* requests in flight of unmounted AudioPlayers

\* The dependency of AudioPlayer's reset effect.
TrackKey(t) ==
    ToString(t.muted) \o "-" \o ToString(t.solo) \o "-" \o ToString(t.volume)
        \o "-" \o ToString(t.isMain)

RECURSIVE TracksKey(_)
TracksKey(tracks) ==
    IF tracks = <<>> THEN "" ELSE TrackKey(Head(tracks)) \o TracksKey(Tail(tracks))

\* "Reset preview when tracks change": runs after a render in which the
\* dependency differs from the one of the render before.
ResetPreviewEffect(p, oldTracks, newTracks) ==
    IF TracksKey(oldTracks) # TracksKey(newTracks)
    THEN [p EXCEPT !.hasGeneratedPreview = FALSE, !.previewUrl = NULL,
                   !.isPlaying = FALSE, !.previewError = NULL]
    ELSE p

\* The requests an AudioPlayer has in flight.
InFlight(p) ==
    (IF p.exportReq # None THEN <<[kind |-> "export", req |-> p.exportReq[1]]>> ELSE <<>>)
        \o (IF p.previewReq # None THEN <<[kind |-> "preview", req |-> p.previewReq[1]]>>
            ELSE <<>>)

\* App takes AudioPlayer away: the state of the component and of its hooks
\* is gone, its requests go on and its pending handlers set state on an
\* unmounted component, which does nothing.
UnmountPlayer(p) == [initialPlayer EXCEPT !.detached = p.detached \o InFlight(p)]

\* The render after a store update from s to s2.  App renders AudioPlayer
\* iff isComplete: one that stays mounted runs its reset effect, one that
\* goes is unmounted, one that comes starts with the initial state.
PlayerAfter(p, s, s2) ==
    IF IsComplete(s)
    THEN IF IsComplete(s2) THEN ResetPreviewEffect(p, s.tracks, s2.tracks)
         ELSE UnmountPlayer(p)
    ELSE p

DetachFits(p, s, s2) == Len(PlayerAfter(p, s, s2).detached) <= MaxDetached

\* A preview request that always asks for 60 s.
PreviewRequest_FixedWindow(s) ==
    [ job_id     |-> s.jobId,
      mix_config |-> GetMixConfig(s),
      start_time |-> 0,
      duration   |-> 6000 ]

\* handleGeneratePreview's arguments to generatePreview.
PreviewRequest(s) ==
    [ job_id     |-> s.jobId,
      mix_config |-> GetMixConfig(s),
      start_time |-> 0,
      duration   |-> Min(6000, s.result[1].duration_seconds) ]

ExportRequest(s) ==
    [ job_id |-> s.jobId, output_format |-> GetMixConfig(s).output_format ]

\* useAudioPreview.generatePreview, catch and finally: the store after a
\* failed preview request.
PreviewFailedStore(s, err) == SetError(s, ErrorText(err, "Preview generation failed"))

\* useAudioExport.exportAudio, try: the store after a successful export.
ExportSucceededStore(s, resp) ==
    SetIsExporting(SetExportUrl(s, GetAudioUrl(resp.download_url)), FALSE)

\* A failed export that also fails the job.
ExportFailedStore_FailsJob(s, err) ==
    SetStatus(SetIsExporting(SetError(s, ErrorText(err, "Export failed")), FALSE), "failed")

\* useAudioExport.exportAudio, catch and finally: the store after a failed
\* export request.
ExportFailedStore(s, err) ==
    SetIsExporting(SetError(s, ErrorText(err, "Export failed")), FALSE)

\* useAudioPreview.generatePreview up to its request: the store.
PreviewStartedStore(s) ==
    IF Falsy(s.jobId) THEN SetError(s, "No job to preview") ELSE SetError(s, NULL)

\* An exportAudio that raises the store's flag before it looks at the job id.
ExportStartedStore_FlagFirst(s) ==
    IF Falsy(s.jobId) THEN SetError(SetIsExporting(s, TRUE), "No job to export")
    ELSE SetError(SetIsExporting(s, TRUE), NULL)

\* useAudioExport.exportAudio up to its request: the store.
ExportStartedStore(s) ==
    IF Falsy(s.jobId) THEN SetError(s, "No job to export")
    ELSE SetError(SetIsExporting(s, TRUE), NULL)

(***************************************************************************)
(* Analysis results the server can report                                  *)
(***************************************************************************)
TrackIdNames == <<"t1", "t2", "t3">>

TrackTypeLists == { <<"speaker">>, <<"speaker", "noise">>, <<"noise", "speaker">> }

ResultOf(jobId, types, duration) ==
    [ job_id           |-> jobId,
      tracks           |-> [i \in 1..Len(types) |-> [id |-> TrackIdNames[i], type |-> types[i]]],
      duration_seconds |-> duration,
      error_message    |-> NULL ]

NotHeld == [status |-> NULL, progress |-> NULL]

pollVars == <<env, inst, polls, dels, sjob, held>>

\* A store update outside the upload flow, and the render that follows it.
StoreAct(s2) ==
    /\ DetachFits(player, store, s2)
    /\ store' = s2
    /\ player' = PlayerAfter(player, store, s2)
    /\ UNCHANGED pollVars

(***************************************************************************)
(* The store's actions, called with any argument                           *)
(***************************************************************************)
TrackIdInputs == {"t1", "t2", "t9"}
VolumeInputs == {-50, 50, 250}
BoostInputs == {300, 1500}
NoiseInputs == {0, 150}
FormatInputs == {"wav", "mp3"}
ResultInputs == { Some(ResultOf("j1", tl, 9000)) : tl \in TrackTypeLists }

\* The store on its own: no component is mounted, nothing is in flight.
StoreOnly(s2) ==
    /\ store' = s2
    /\ UNCHANGED <<player, pollVars>>

DoSetResult(result) == StoreOnly(SetResult(store, result))
DoSetJobId(jobId) == StoreOnly(SetJobId(store, jobId))
DoToggleTrackMute(trackId) == StoreOnly(ToggleTrackMute(store, trackId))
DoToggleTrackSolo(trackId) == StoreOnly(ToggleTrackSolo(store, trackId))
DoSetTrackVolume(trackId, volume) == StoreOnly(SetTrackVolume(store, trackId, volume))
DoSetMainSpeaker(trackId) == StoreOnly(SetMainSpeaker(store, trackId))
DoResetAllTracks == StoreOnly(ResetAllTracks(store))
DoSetMainSpeakerBoostDb(db) == StoreOnly(SetMainSpeakerBoostDb(store, db))
DoSetNoiseReductionLevel(level) == StoreOnly(SetNoiseReductionLevel(store, level))
DoSetOutputFormat(format) == StoreOnly(SetOutputFormat(store, format))
DoSetNormalize(normalize) == StoreOnly(SetNormalize(store, normalize))

HooksIdle ==
    /\ env = [VITE_API_URL |-> NULL]
    /\ player = initialPlayer
    /\ inst = <<>>
    /\ polls = <<>>
    /\ dels = {}
    /\ sjob = <<>>
    /\ held = NotHeld

InitStore ==
    /\ store = initialState
    /\ HooksIdle

NextStore ==
    \/ \E result \in ResultInputs : DoSetResult(result)
    \/ DoSetJobId("j1")
    \/ \E trackId \in TrackIdInputs : DoToggleTrackMute(trackId)
    \/ \E trackId \in TrackIdInputs : DoToggleTrackSolo(trackId)
    \/ \E trackId \in TrackIdInputs, volume \in VolumeInputs : DoSetTrackVolume(trackId, volume)
    \/ \E trackId \in TrackIdInputs : DoSetMainSpeaker(trackId)
    \/ store.tracks # <<>> /\ DoResetAllTracks
    \/ \E db \in BoostInputs : DoSetMainSpeakerBoostDb(db)
    \/ \E level \in NoiseInputs : DoSetNoiseReductionLevel(level)
    \/ \E format \in FormatInputs : DoSetOutputFormat(format)
    \/ \E normalize \in BOOLEAN : DoSetNormalize(normalize)

SpecStore == InitStore /\ [][NextStore]_vars

(***************************************************************************)
(* The results view: TrackItem, TrackManager and AudioPlayer, which App    *)
(* renders while status is 'complete' and a result is held                 *)
(***************************************************************************)
\* TrackManager and AudioPlayer render nothing without a result and tracks.
ResultsShown == IsComplete(store) /\ Len(store.tracks) > 0

\* track.id === trackId for some track of the store.
HasTrack(trackId) == \E i \in 1..Len(store.tracks) : store.tracks[i].id = trackId

\* TrackManager lists the speaker tracks and the noise/other tracks.
TrackShown(trackId) ==
    /\ ResultsShown
    /\ \E i \in 1..Len(store.tracks) :
          /\ store.tracks[i].id = trackId
          /\ store.tracks[i].type \in {"speaker", "noise", "other"}

PreviewFailedText == "Failed to generate preview. Try exporting directly."

\* TrackItem: the mute button of a track.
ClickMute(trackId) ==
    /\ TrackShown(trackId)
    /\ StoreAct(ToggleTrackMute(store, trackId))

\* TrackManager: the main speaker boost slider (0 to 10 in steps of 0.5).
SlideBoost(db) ==
    /\ ResultsShown
    /\ db \in 0..1000 /\ db % 50 = 0
    /\ StoreAct(SetMainSpeakerBoostDb(store, db))

\* AudioPlayer: the normalize button.
ClickNormalize ==
    /\ ResultsShown
    /\ StoreAct(SetNormalize(store, ~store.normalize))

\* AudioPlayer.handleGeneratePreview up to the await in generatePreview.
GeneratePreviewStart ==
    /\ store' = PreviewStartedStore(store)
    /\ player' = IF Falsy(store.jobId)
                 THEN [player EXCEPT !.previewError = PreviewFailedText]
                 ELSE [player EXCEPT !.previewError = NULL, !.isGenerating = TRUE,
                                     !.previewReq = Some(PreviewRequest(store))]
    /\ UNCHANGED pollVars

\* AudioPlayer.handlePlayPause: the round button, disabled while generating.
\* Without a preview it generates one; while playing it pauses and sets
\* isPlaying to false; otherwise it calls audio.play() and waits for it.
ClickPlayPause ==
    /\ ResultsShown
    /\ ~player.isGenerating
    /\ IF player.previewUrl = NULL
       THEN GeneratePreviewStart
       ELSE /\ IF player.isPlaying
               THEN player' = [player EXCEPT !.isPlaying = FALSE]
               ELSE /\ player.playsPending < MaxPlays
                    /\ player' = [player EXCEPT !.playsPending = @ + 1]
            /\ UNCHANGED <<store, pollVars>>

\* audio.play() settles, resolved or rejected (the catch only logs), and
\* handlePlayPause goes on with setIsPlaying(!isPlaying), isPlaying being
\* the false of the render of the click.
PlaySettles ==
    /\ player.playsPending > 0
    /\ player' = [player EXCEPT !.playsPending = @ - 1, !.isPlaying = TRUE]
    /\ UNCHANGED <<store, pollVars>>

\* The audio element, rendered while a preview URL is held: onEnded.
AudioEnded ==
    /\ ResultsShown
    /\ player.previewUrl # NULL
    /\ player' = [player EXCEPT !.isPlaying = FALSE]
    /\ UNCHANGED <<store, pollVars>>

\* The audio element: onError.
AudioError ==
    /\ ResultsShown
    /\ player.previewUrl # NULL
    /\ player' = [player EXCEPT !.previewError = "Error loading audio preview"]
    /\ UNCHANGED <<store, pollVars>>

\* The refresh button, shown once a preview was generated.
ClickRefresh ==
    /\ ResultsShown
    /\ player.hasGeneratedPreview
    /\ ~player.isGenerating
    /\ GeneratePreviewStart

\* The preview request succeeds: generatePreview returns the URL and
\* handleGeneratePreview keeps it.
PreviewSucceeds ==
    /\ player.previewReq # None
    /\ player' = [player EXCEPT !.isGenerating = FALSE, !.previewReq = None,
                     !.previewUrl = GetAudioUrl(ServerPreviewUrl(player.previewReq[1])),
                     !.hasGeneratedPreview = TRUE]
    /\ UNCHANGED <<store, pollVars>>

\* The preview request fails: generatePreview sets the error and returns null.
PreviewFails(err) ==
    /\ player.previewReq # None
    /\ store' = PreviewFailedStore(store, err)
    /\ player' = [player EXCEPT !.isGenerating = FALSE, !.previewReq = None,
                                !.previewError = PreviewFailedText]
    /\ UNCHANGED pollVars

\* AudioPlayer.handleExport up to the await in exportAudio.
ClickExport ==
    /\ ResultsShown
    /\ ~player.isExporting
    /\ store' = ExportStartedStore(store)
    /\ player' = IF Falsy(store.jobId)
                 THEN [player EXCEPT !.previewError = NULL]
                 ELSE [player EXCEPT !.previewError = NULL, !.isExporting = TRUE,
                                     !.exportReq = Some(ExportRequest(store))]
    /\ UNCHANGED pollVars

ExportSucceeds ==
    /\ player.exportReq # None
    /\ store' = ExportSucceededStore(store, [download_url |-> ServerExportUrl(player.exportReq[1])])
    /\ player' = [player EXCEPT !.isExporting = FALSE, !.exportReq = None]
    /\ UNCHANGED pollVars

ExportFails(err) ==
    /\ player.exportReq # None
    /\ store' = ExportFailedStore(store, err)
    /\ player' = [player EXCEPT !.isExporting = FALSE, !.exportReq = None]
    /\ UNCHANGED pollVars

\* A request of an unmounted AudioPlayer settles: the hook's call goes on,
\* it writes the store as ever and its own state not at all.
DetachedIs(k, kind) == k \in 1..Len(player.detached) /\ player.detached[k].kind = kind

DetachedExportSucceeds(k) ==
    /\ DetachedIs(k, "export")
    /\ store' = ExportSucceededStore(store,
                    [download_url |-> ServerExportUrl(player.detached[k].req)])
    /\ player' = [player EXCEPT !.detached = RemoveAt(@, k)]
    /\ UNCHANGED pollVars

DetachedExportFails(k, err) ==
    /\ DetachedIs(k, "export")
    /\ store' = ExportFailedStore(store, err)
    /\ player' = [player EXCEPT !.detached = RemoveAt(@, k)]
    /\ UNCHANGED pollVars

DetachedPreviewSucceeds(k) ==
    /\ DetachedIs(k, "preview")
    /\ player' = [player EXCEPT !.detached = RemoveAt(@, k)]
    /\ UNCHANGED <<store, pollVars>>

DetachedPreviewFails(k, err) ==
    /\ DetachedIs(k, "preview")
    /\ store' = PreviewFailedStore(store, err)
    /\ player' = [player EXCEPT !.detached = RemoveAt(@, k)]
    /\ UNCHANGED pollVars

\* The store once uploadAndAnalyze went through for `file` and a status
\* response reported the job complete with `result`.
CompleteStore(file, jobId, result) ==
    SetResult(
        SetCurrentStep(SetProgress(SetStatus(
            SetStatus(SetStatus(SetJobId(
                SetUploadedFile(SetError(initialState, NULL), Some(file)),
                jobId), "pending"), "processing"),
            "complete"), 100), "Complete"),
        Some(result))

UiTrackIds == {"t1"}
UiBoosts == {300, 600}

\* Job durations: none, 45.5 s, exactly 60 s, 90 s.
UiDurations == {0, 4550, 6000, 9000}

\* The store when cancelAnalysis of an earlier job ended (its delete request
\* settled) after the job `jobId` was started, and a status response then
\* reported that job complete: the results are shown, the job id is null.
OrphanStore(file, jobId, result) ==
    SetResult(
        SetCurrentStep(SetProgress(SetStatus(
            SetUploadedFile(SetResult(SetCurrentStep(SetProgress(SetStatus(SetJobId(
                SetStatus(SetStatus(SetJobId(
                    SetUploadedFile(SetError(initialState, NULL), Some(file)),
                    jobId), "pending"), "processing"),
                NULL), "pending"), 0), ""), None), None),
            "complete"), 100), "Complete"),
        Some(result))

(***************************************************************************)
(* FileUpload: validateFile                                                *)
(***************************************************************************)
ALLOWED_EXTENSIONS == <<"mp3", "wav", "m4a", "flac", "ogg", "aac">>

MaxFileSize == 500 * 1024 * 1024

\* String.prototype.split('.'): the pieces between the dots, the whole
\* string if it has none.
RECURSIVE SplitOnDot(_)
SplitOnDot(s) ==
    IF \E k \in 1..Len(s) : s[k] = 46
    THEN LET dot == CHOOSE k \in 1..Len(s) :
                        /\ s[k] = 46
                        /\ \A j \in 1..(k - 1) : s[j] # 46
         IN  <<SubSeq(s, 1, dot - 1)>> \o SplitOnDot(SubSeq(s, dot + 1, Len(s)))
    ELSE <<s>>

\* Array.prototype.join(', ')
RECURSIVE JoinComma(_)
JoinComma(items) ==
    IF Len(items) = 0 THEN ""
    ELSE IF Len(items) = 1 THEN items[1]
    ELSE items[1] \o ", " \o JoinComma(Tail(items))

\* validateFile: the message it sets, NULL when it accepts the file.  The
\* extension is the last piece of the name in lower case, and the type is
\* valid if ALLOWED_EXTENSIONS includes it.  The allowed extensions are
\* ASCII without k; a character outside ASCII has a lower-case form outside
\* ASCII, but for U+212A, whose form is k, and U+0130, whose form is i and
\* U+0307.  So the list includes the lower-case form of a piece exactly if
\* the piece is ASCII and, with A..Z replaced by a..z, is in the list.
ValidationErrorOf(file) ==
    LET parts == SplitOnDot(file.name)
        last == parts[Len(parts)]
        lower == [k \in 1..Len(last) |->
                     IF last[k] \in 65..90 THEN last[k] + 32 ELSE last[k]]
        included ==
            /\ \A k \in 1..Len(last) : last[k] < 128
            /\ \E e \in 1..Len(ALLOWED_EXTENSIONS) : Units(ALLOWED_EXTENSIONS[e]) = lower
    IN  IF last = <<>> \/ ~included
        THEN "Invalid file type. Allowed: " \o JoinComma(ALLOWED_EXTENSIONS)
        ELSE IF file.size > MaxFileSize
             THEN "File too large. Maximum size: 500MB"
             ELSE NULL

ValidateFile(file) == ValidationErrorOf(file) = NULL

(***************************************************************************)
(* The upload flow in the component tree: App, FileUpload and the          *)
(* useAudioAnalysis hook, against the job server                           *)
(***************************************************************************)
MaxJobs == 3
MaxInst == 2
MaxPolls == 2

JobIdNames == <<"j1", "j2", "j3", "j4">>
Files == {TalkFile}

JobIndex(jobId) == CHOOSE n \in 1..Len(JobIdNames) : JobIdNames[n] = jobId

\* The job server.  A job is created pending, started into phase 2 and moves
\* up through the phases; a failure freezes it where it is.
ServerPhases ==
    << [status |-> "pending",    progress |-> 0,   current_step |-> "Queued"],
       [status |-> "processing", progress |-> 5,   current_step |-> "Preparing input"],
       [status |-> "separating", progress |-> 25,  current_step |-> "Separating sources"],
       [status |-> "diarizing",  progress |-> 60,  current_step |-> "Identifying speakers"],
       [status |-> "complete",   progress |-> 100, current_step |-> "Complete"] >>

LastPhase == Len(ServerPhases)

\* A job, with the types of the tracks its analysis will find.
NewJob(types) ==
    [phase |-> 1, failed |-> FALSE, error |-> NULL, deleted |-> FALSE, tracks |-> types]

PollTrackLists == { <<"speaker", "noise">> }

ServerErrors == {NULL, "Separation failed"}

\* GET /api/status/{job_id}: the latest snapshot of job n.
JobStatusResponse(n) ==
    LET job == sjob[n]
        at  == ServerPhases[job.phase]
    IN  IF job.failed
        THEN [ status       |-> "failed",
               progress     |-> at.progress,
               current_step |-> "Failed",
               result       |-> IF job.error = NULL
                                THEN None
                                ELSE Some([ResultOf(JobIdNames[n], <<>>, 0)
                                             EXCEPT !.error_message = job.error]) ]
        ELSE [ status       |-> at.status,
               progress     |-> at.progress,
               current_step |-> at.current_step,
               result       |-> IF job.phase = LastPhase
                                THEN Some(ResultOf(JobIdNames[n], job.tracks, 9000))
                                ELSE None ]

\* A FileUpload instance with its useAudioAnalysis hook: pc is where its
\* uploadAndAnalyze call stands, pollingRef is "null", "live" (a running
\* interval) or "cleared" (the id of an interval that was cleared).
FreeInst ==
    [ used |-> FALSE, mounted |-> FALSE, pc |-> "idle", job |-> 0,
      isUploading |-> FALSE, pollingRef |-> "null", pollJob |-> 0,
      validationError |-> NULL ]

NewInst == [FreeInst EXCEPT !.used = TRUE, !.mounted = TRUE]

\* App.tsx: FileUpload is rendered iff !isProcessing && !isComplete.
FileUploadShown(s) == ~IsProcessing(s) /\ ~IsComplete(s)

\* The unmount cleanup of useAudioAnalysis: clearInterval(pollingRef.current),
\* the ref keeps the id.
Unmount(f) ==
    [f EXCEPT !.mounted = FALSE,
              !.pollingRef = IF f.pollingRef = "live" THEN "cleared" ELSE f.pollingRef]

\* An unmounted instance nothing can call into any more.
Unreachable(f, i, ps) ==
    /\ f.used /\ ~f.mounted
    /\ f.pc = "idle"
    /\ f.pollingRef # "live"
    /\ \A k \in 1..Len(ps) : ps[k].inst # i

Unmounted(fs, s) ==
    [i \in 1..MaxInst |-> IF fs[i].mounted /\ ~FileUploadShown(s) THEN Unmount(fs[i]) ELSE fs[i]]

Collected(fs, ps) ==
    [i \in 1..MaxInst |-> IF Unreachable(fs[i], i, ps) THEN FreeInst ELSE fs[i]]

NeedsMount(fs, s) == FileUploadShown(s) /\ \A i \in 1..MaxInst : ~fs[i].mounted

FreeSlots(fs) == {i \in 1..MaxInst : ~fs[i].used}

Mounted(fs, s) ==
    IF NeedsMount(fs, s) /\ FreeSlots(fs) # {}
    THEN LET slot == CHOOSE i \in FreeSlots(fs) : \A j \in FreeSlots(fs) : i <= j
         IN  [fs EXCEPT ![slot] = NewInst]
    ELSE fs

\* The render that follows a store update: App unmounts or mounts FileUpload.
Render(fs, ps, s) == Mounted(Collected(Unmounted(fs, s), ps), s)

RenderFits(fs, ps, s) ==
    LET after == Collected(Unmounted(fs, s), ps)
    IN  NeedsMount(after, s) => FreeSlots(after) # {}

\* A step of the upload flow: the store, the hooks, the requests in flight
\* and the history after it, followed by the render.
FlowAct(s2, fs, ps, h) ==
    /\ RenderFits(fs, ps, s2)
    /\ DetachFits(player, store, s2)
    /\ store' = s2
    /\ player' = PlayerAfter(player, store, s2)
    /\ UNCHANGED env
    /\ inst' = Render(fs, ps, s2)
    /\ polls' = ps
    /\ held' = h

\* A status request in flight: the job, the instance whose poll() issued it,
\* the response once the server has answered, and (history) whether
\* cancelAnalysis was called for the job while the request was in flight.
NewPoll(n, i) == [job |-> n, inst |-> i, resp |-> None, beforeCancel |-> FALSE]

\* FileUpload.handleFile with a file validateFile accepts, and
\* uploadAndAnalyze up to the await of uploadFile.
PickFile(i, file) ==
    /\ inst[i].mounted /\ ~inst[i].isUploading
    /\ ValidateFile(file)
    /\ FlowAct(SetUploadedFile(SetError(store, NULL), Some(file)),
               [inst EXCEPT ![i].validationError = NULL,
                            ![i].isUploading = TRUE, ![i].pc = "upload"],
               polls, held)
    /\ UNCHANGED <<dels, sjob>>

\* FileUpload.handleFile with a file validateFile rejects.
RejectFile(i, file) ==
    /\ inst[i].mounted /\ ~inst[i].isUploading
    /\ ~ValidateFile(file)
    /\ inst' = [inst EXCEPT ![i].validationError = ValidationErrorOf(file)]
    /\ UNCHANGED <<env, store, player, polls, dels, sjob, held>>

HandleFile(i, file) == PickFile(i, file) \/ RejectFile(i, file)

\* uploadFile resolves: setJobId, setStatus('pending'), up to the await of
\* startAnalysis.
UploadSucceeds(i, types) ==
    /\ inst[i].pc = "upload"
    /\ Len(sjob) < MaxJobs
    /\ LET n == Len(sjob) + 1
       IN  /\ sjob' = Append(sjob, NewJob(types))
           /\ FlowAct(SetStatus(SetJobId(store, JobIdNames[n]), "pending"),
                      [inst EXCEPT ![i].pc = "start", ![i].job = n],
                      polls, [held EXCEPT !.status = NULL])
    /\ UNCHANGED dels

\* uploadFile or startAnalysis rejects: the catch and the finally.
UploadOrStartFails(i, err) ==
    /\ inst[i].pc \in {"upload", "start"}
    /\ FlowAct(SetStatus(SetError(store, ErrorText(err, "An error occurred")), "failed"),
               [inst EXCEPT ![i].pc = "idle", ![i].job = 0, ![i].isUploading = FALSE],
               polls, [held EXCEPT !.status = NULL])
    /\ UNCHANGED <<dels, sjob>>

\* startAnalysis resolves: setStatus('processing'), pollJobStatus (the first
\* request and the interval), the finally.
StartSucceeds(i) ==
    /\ inst[i].pc = "start"
    /\ Len(polls) < MaxPolls
    /\ LET n == inst[i].job
       IN  /\ sjob' = [sjob EXCEPT ![n].phase = 2]
           /\ FlowAct(SetStatus(store, "processing"),
                      [inst EXCEPT ![i].pc = "idle", ![i].job = 0, ![i].isUploading = FALSE,
                                   ![i].pollingRef = "live", ![i].pollJob = n],
                      Append(polls, NewPoll(n, i)),
                      [held EXCEPT !.status = NULL])
    /\ UNCHANGED dels

\* The interval fires: poll() issues another status request.
IntervalTick(i) ==
    /\ inst[i].pollingRef = "live"
    /\ Len(polls) < MaxPolls
    /\ polls' = Append(polls, NewPoll(inst[i].pollJob, i))
    /\ UNCHANGED <<env, store, player, inst, dels, sjob, held>>

\* The analysis of a job moves to its next phase; its progress is observed
\* through status requests only, so it moves while one can still see it.
Observed(n) ==
    \/ \E k \in 1..Len(polls) : polls[k].job = n /\ polls[k].resp = None
    \/ \E i \in 1..MaxInst : inst[i].pollingRef = "live" /\ inst[i].pollJob = n

ServerAdvance(n) ==
    /\ n \in 1..Len(sjob)
    /\ sjob[n].phase \in 2..(LastPhase - 1)
    /\ ~sjob[n].failed /\ ~sjob[n].deleted
    /\ Observed(n)
    /\ sjob' = [sjob EXCEPT ![n].phase = @ + 1]
    /\ UNCHANGED <<env, store, player, inst, polls, dels, held>>

ServerFail(n, message) ==
    /\ n \in 1..Len(sjob)
    /\ sjob[n].phase \in 2..(LastPhase - 1)
    /\ ~sjob[n].failed /\ ~sjob[n].deleted
    /\ Observed(n)
    /\ sjob' = [sjob EXCEPT ![n].failed = TRUE, ![n].error = message]
    /\ UNCHANGED <<env, store, player, inst, polls, dels, held>>

\* The server answers a status request with the snapshot of that moment.
ServerAnswersPoll(k) ==
    /\ k \in 1..Len(polls)
    /\ polls[k].resp = None
    /\ ~sjob[polls[k].job].deleted
    /\ polls' = [polls EXCEPT ![k].resp = Some(JobStatusResponse(polls[k].job))]
    /\ UNCHANGED <<env, store, player, inst, dels, sjob, held>>

\* clearInterval(pollingRef.current); pollingRef.current = null, if set.
StopPolling(fs, i) ==
    IF fs[i].pollingRef # "null"
    THEN [fs EXCEPT ![i].pollingRef = "null", ![i].pollJob = 0]
    ELSE fs

\* poll(): what the store is after a status response.
StatusReceivedStore(s, status) ==
    LET s1 == SetCurrentStep(SetProgress(SetStatus(s, status.status), status.progress),
                             status.current_step)
    IN  IF status.status = "complete" /\ status.result # None
        THEN SetResult(s1, status.result)
        ELSE IF status.status = "failed"
             THEN SetError(s1, IF status.result # None /\ ~Falsy(status.result[1].error_message)
                               THEN status.result[1].error_message
                               ELSE "Processing failed")
             ELSE s1

StopsPolling(status) ==
    \/ status.status = "complete" /\ status.result # None
    \/ status.status = "failed"

\* poll(): getJobStatus resolves.
PollDelivered(k) ==
    /\ k \in 1..Len(polls)
    /\ polls[k].resp # None
    /\ LET status == polls[k].resp[1]
           jobId  == JobIdNames[polls[k].job]
       IN  FlowAct(StatusReceivedStore(store, status),
                   IF StopsPolling(status) THEN StopPolling(inst, polls[k].inst) ELSE inst,
                   RemoveAt(polls, k),
                   [status |-> jobId, progress |-> jobId])
    /\ UNCHANGED <<dels, sjob>>

\* poll(): getJobStatus rejects (the network, or the job is gone).
PollFails(k) ==
    /\ k \in 1..Len(polls)
    /\ FlowAct(SetError(store, "Failed to get job status"),
               StopPolling(inst, polls[k].inst),
               RemoveAt(polls, k), held)
    /\ UNCHANGED <<dels, sjob>>

\* cancelAnalysis of App's hook instance after its deleteJob settled, or at
\* once when it held no job id.  That instance never polls: its pollingRef
\* is null.
CancelledStore(s) ==
    SetUploadedFile(SetResult(SetCurrentStep(SetProgress(SetStatus(SetJobId(s, NULL),
        "pending"), 0), ""), None), None)

\* App.handleStartOver: cancelAnalysis() up to its await, then reset().
StartOver ==
    /\ IsComplete(store)
    /\ dels' = IF Falsy(store.jobId) THEN dels ELSE dels \cup {store.jobId}
    /\ FlowAct(initialState, inst,
               [k \in 1..Len(polls) |->
                   IF JobIdNames[polls[k].job] = store.jobId
                   THEN [polls[k] EXCEPT !.beforeCancel = TRUE]
                   ELSE polls[k]],
               NotHeld)
    /\ UNCHANGED sjob

\* deleteJob settles (ok or not) and cancelAnalysis runs to its end.
DeleteSettles(jobId, ok) ==
    /\ jobId \in dels
    /\ dels' = dels \ {jobId}
    /\ sjob' = IF ok THEN [sjob EXCEPT ![JobIndex(jobId)].deleted = TRUE] ELSE sjob
    /\ FlowAct(CancelledStore(store), inst, polls, NotHeld)

InitPoll ==
    /\ env = [VITE_API_URL |-> NULL]
    /\ store = initialState
    /\ player = initialPlayer
    /\ inst = [i \in 1..MaxInst |-> IF i = 1 THEN NewInst ELSE FreeInst]
    /\ polls = <<>>
    /\ dels = {}
    /\ sjob = <<>>
    /\ held = NotHeld

NextPoll ==
    \/ \E i \in 1..MaxInst, file \in Files : PickFile(i, file)
    \/ \E i \in 1..MaxInst, types \in PollTrackLists : UploadSucceeds(i, types)
    \/ \E i \in 1..MaxInst, err \in Errors : UploadOrStartFails(i, err)
    \/ \E i \in 1..MaxInst : StartSucceeds(i)
    \/ \E i \in 1..MaxInst : IntervalTick(i)
    \/ \E n \in 1..MaxJobs : ServerAdvance(n)
    \/ \E n \in 1..MaxJobs, message \in ServerErrors : ServerFail(n, message)
    \/ \E k \in 1..MaxPolls : ServerAnswersPoll(k)
    \/ \E k \in 1..MaxPolls : PollDelivered(k)
    \/ \E k \in 1..MaxPolls : PollFails(k)
    \/ StartOver
    \/ \E jobId \in {JobIdNames[n] : n \in 1..MaxJobs}, ok \in BOOLEAN : DeleteSettles(jobId, ok)

SpecPoll == InitPoll /\ [][NextPoll]_vars

(***************************************************************************)
(* The results view on its own (SpecUI)                                    *)
(***************************************************************************)
FinishedJob(types) == [NewJob(types) EXCEPT !.phase = LastPhase]

\* The results of a job are shown and nothing of the upload flow is under
\* way: FileUpload is unmounted, no request is in flight.
ResultsInit ==
    /\ \/ /\ \E duration \in UiDurations :
                store = CompleteStore(TalkFile, "j1",
                                      ResultOf("j1", <<"speaker", "noise">>, duration))
          /\ sjob = <<FinishedJob(<<"speaker", "noise">>)>>
          /\ held = [status |-> "j1", progress |-> "j1"]
       \/ /\ store = OrphanStore(TalkFile, "j2", ResultOf("j2", <<"speaker", "noise">>, 9000))
          /\ sjob = << [FinishedJob(<<"speaker", "noise">>) EXCEPT !.deleted = TRUE],
                       FinishedJob(<<"speaker", "noise">>) >>
          /\ held = [status |-> "j2", progress |-> "j2"]
    /\ player = initialPlayer
    /\ inst = [i \in 1..MaxInst |-> FreeInst]
    /\ polls = <<>>
    /\ dels = {}

\* Either build of the client.
InitUI ==
    /\ env \in Envs
    /\ ResultsInit

NextUI ==
    \/ \E trackId \in UiTrackIds : ClickMute(trackId)
    \/ \E db \in UiBoosts : SlideBoost(db)
    \/ ClickPlayPause
    \/ PlaySettles
    \/ AudioEnded
    \/ AudioError
    \/ ClickRefresh
    \/ PreviewSucceeds
    \/ \E err \in Errors : PreviewFails(err)
    \/ ClickExport
    \/ ExportSucceeds
    \/ \E err \in Errors : ExportFails(err)

SpecUI == InitUI /\ [][NextUI]_vars

(***************************************************************************)
(* Claims about the upload flow (SpecPoll)                                 *)
(***************************************************************************)
Terminal == {"complete", "failed"}

StatusFields(s) == <<s.status, s.progress, s.currentStep, s.result>>

\* C1: once pollJobStatus has set up the interval of an instance, that
\* interval keeps running (and so keeps issuing status requests) until a
\* response reports complete or failed or a request fails: an instance whose
\* pollingRef holds an interval id holds the id of a running interval.
C1_PollingKeepsRunning ==
    \A i \in 1..MaxInst : inst[i].pollingRef # "null" => inst[i].pollingRef = "live"

\* C2: while the store holds a non-terminal status written by a status
\* response of a job, a store update that leaves the store with a progress
\* of that same job does not lower the progress.
C2_ProgressNeverDecreases ==
    [][ ( /\ held.status # NULL
          /\ held.progress = held.status
          /\ store.status \notin Terminal
          /\ held'.progress = held.status )
        => store'.progress >= store.progress ]_vars

\* C3: once the store holds 'complete' or 'failed' written by a status
\* response of a job, a later status response of that job changes none of
\* status, progress, currentStep and result.
C3_TerminalStateStays ==
    [][ \A k \in 1..MaxPolls :
          ( /\ held.status # NULL
            /\ store.status \in Terminal
            /\ k <= Len(polls)
            /\ JobIdNames[polls[k].job] = held.status
            /\ PollDelivered(k) )
          => StatusFields(store') = StatusFields(store) ]_vars

\* C4: when cancelAnalysis returns, with the delete request either accepted
\* or rejected, the store holds no job (jobId null, status 'pending',
\* progress 0, currentStep empty, result null, tracks empty, uploadedFile
\* null), and from then on a response to a status request of the cancelled
\* job that was in flight when the cancel was made writes none of status,
\* progress, currentStep, result and error.
C4_CancelledJobUnobservable ==
    [][ /\ \A n \in 1..MaxJobs, ok \in BOOLEAN :
             DeleteSettles(JobIdNames[n], ok) =>
                /\ store'.jobId = NULL /\ store'.status = "pending"
                /\ store'.progress = 0 /\ store'.currentStep = ""
                /\ store'.result = None /\ store'.tracks = <<>>
                /\ store'.uploadedFile = None
        /\ \A k \in 1..MaxPolls :
             ( /\ k <= Len(polls)
               /\ polls[k].beforeCancel
               /\ JobIdNames[polls[k].job] \notin dels
               /\ PollDelivered(k) )
             => /\ StatusFields(store') = StatusFields(store)
                /\ store'.error = store.error ]_vars

(***************************************************************************)
(* Claims about the results view (SpecUI)                                  *)
(***************************************************************************)
JobFields(s) == <<s.jobId, s.status, s.progress, s.currentStep, s.result, s.tracks>>

RenderStep ==
    \/ ClickPlayPause
    \/ ClickRefresh
    \/ PreviewSucceeds
    \/ \E err \in Errors : PreviewFails(err)
    \/ ClickExport
    \/ ExportSucceeds
    \/ \E err \in Errors : ExportFails(err)

\* C5: no step of exportAudio or generatePreview (issuing the request, its
\* success, its failure) changes jobId, status, progress, currentStep, result
\* or tracks; a failed request changes of the store only error, to a
\* non-empty message (and puts isExporting back to false), the job stays
\* 'complete' and the button that issues the request is enabled again.
C5_RendersLeaveJobAlone ==
    [][ /\ RenderStep => JobFields(store') = JobFields(store)
        /\ \A err \in Errors :
             PreviewFails(err) =>
                /\ store' = [store EXCEPT !.error = store'.error]
                /\ ~Falsy(store'.error)
                /\ IsComplete(store') /\ ~player'.isGenerating
        /\ \A err \in Errors :
             ExportFails(err) =>
                /\ store' = [store EXCEPT !.error = store'.error, !.isExporting = FALSE]
                /\ ~Falsy(store'.error)
                /\ IsComplete(store') /\ ~player'.isExporting
      ]_vars

\* An export request failed without any message of its own while a
\* generated preview is held.
C5_Witness ==
    /\ store.error = "Export failed"
    /\ store.status = "complete"
    /\ player.exportReq = None
    /\ player.previewUrl # NULL

\* C6: a preview held by the player was rendered from the MixConfig that
\* getMixConfig returns now.
C6_PreviewMatchesMix ==
    player.previewUrl # NULL =>
        player.previewUrl = GetAudioUrl(ServerPreviewUrl(PreviewRequest(store)))

(***************************************************************************)
(* Claims about the store (SpecStore)                                      *)
(***************************************************************************)
MainCount(tracks) == Cardinality({i \in 1..Len(tracks) : tracks[i].isMain})

\* C7: at most one track of the store has isMain, and at most one
\* TrackConfig of the MixConfig has is_main.
C7_AtMostOneMain ==
    /\ MainCount(store.tracks) <= 1
    /\ Cardinality({i \in 1..Len(GetMixConfig(store).tracks) :
                        GetMixConfig(store).tracks[i].is_main}) <= 1

\* setMainSpeaker moved the mark from the first track to the second.
C7_Witness ==
    /\ Len(store.tracks) = 2
    /\ store.tracks[1].type = "speaker"
    /\ ~store.tracks[1].isMain
    /\ store.tracks[2].isMain

\* C8: setTrackVolume(id, v) stores min(2, max(0, v)) on the tracks with
\* that id and leaves the volume of the others; every volume of every
\* MixConfig lies in [0, 2].
C8_VolumeClamped ==
    /\ [](\A i \in 1..Len(GetMixConfig(store).tracks) :
            GetMixConfig(store).tracks[i].volume \in 0..200)
    /\ [][ \A trackId \in TrackIdInputs, volume \in VolumeInputs :
             DoSetTrackVolume(trackId, volume) =>
                \A i \in 1..Len(store.tracks) :
                    store'.tracks[i].volume =
                        IF store.tracks[i].id = trackId
                        THEN Min(200, Max(0, volume))
                        ELSE store.tracks[i].volume
         ]_vars

\* Inputs below 0 and above 2 were stored, as 0 and as 2; a third track
\* state holds an input inside the range.
C8_Witness ==
    /\ Len(store.tracks) = 2
    /\ store.tracks[1].volume = 0
    /\ store.tracks[2].volume = 200

\* C9: main_speaker_boost_db lies in [0, 10] and noise_reduction_level in
\* [0, 1] in every MixConfig.
C9_GlobalsInRange ==
    /\ GetMixConfig(store).main_speaker_boost_db \in 0..1000
    /\ GetMixConfig(store).noise_reduction_level \in 0..100

\* C10: the MixConfig is the store's mix state, field by field.
C10_MixConfigMirrorsStore ==
    LET m == GetMixConfig(store) IN
    /\ m.job_id = (IF store.jobId = NULL THEN "" ELSE store.jobId)
    /\ Len(m.tracks) = Len(store.tracks)
    /\ \A i \in 1..Len(store.tracks) :
          /\ m.tracks[i].track_id = store.tracks[i].id
          /\ m.tracks[i].muted = store.tracks[i].muted
          /\ m.tracks[i].solo = store.tracks[i].solo
          /\ m.tracks[i].volume = store.tracks[i].volume
          /\ m.tracks[i].is_main = store.tracks[i].isMain
          /\ DOMAIN m.tracks[i] = {"track_id", "muted", "solo", "volume", "is_main"}
    /\ m.main_speaker_boost_db = store.mainSpeakerBoostDb
    /\ m.noise_reduction_level = store.noiseReductionLevel
    /\ m.output_format = store.outputFormat
    /\ m.normalize = store.normalize

\* A job id is held and every mix field differs from its default.
C10_Witness ==
    /\ store.jobId = "j1"
    /\ Len(store.tracks) = 2
    /\ store.tracks[1].muted /\ ~store.tracks[1].solo
    /\ store.tracks[2].solo /\ store.tracks[2].isMain
    /\ store.tracks[2].volume = 50
    /\ store.mainSpeakerBoostDb = 1500
    /\ store.noiseReductionLevel = 150
    /\ store.outputFormat = "mp3"
    /\ ~store.normalize

(***************************************************************************)
(* The mixing engine's solo override (step 2 of a render)                  *)
(***************************************************************************)
AnySolo(mix) == \E i \in 1..Len(mix.tracks) : mix.tracks[i].solo

\* If any track is soloed every track that is not is silent, whatever its
\* muted flag; otherwise the muted tracks are silent.
Silent(mix, i) ==
    IF AnySolo(mix) THEN ~mix.tracks[i].solo ELSE mix.tracks[i].muted

Audible(mix) == {i \in 1..Len(mix.tracks) : ~Silent(mix, i)}

\* The store with other muted flags on its tracks.
WithMuted(s, flags) ==
    SetTracks(s, [i \in 1..Len(s.tracks) |-> [s.tracks[i] EXCEPT !.muted = flags[i]]])

\* C11: the MixConfig the client sends carries each track's muted and solo
\* flag as the store holds them; rendered, the audible tracks are the ones
\* soloed in the store if one is, the same for every other choice of the
\* muted flags in the store, and the ones not muted in the store if none is
\* soloed.
C11_SoloDominatesMute ==
    LET mix    == GetMixConfig(store)
        n      == Len(store.tracks)
        soloed == {i \in 1..n : store.tracks[i].solo}
    IN  /\ Len(mix.tracks) = n
        /\ \A i \in 1..n :
              /\ mix.tracks[i].muted = store.tracks[i].muted
              /\ mix.tracks[i].solo = store.tracks[i].solo
        /\ soloed # {} =>
              \A flags \in [1..n -> BOOLEAN] :
                  Audible(GetMixConfig(WithMuted(store, flags))) = soloed
        /\ soloed = {} =>
              Audible(mix) = {i \in 1..n : ~store.tracks[i].muted}

\* A track that is both muted and soloed next to one that is neither.
C11_Witness ==
    /\ Len(store.tracks) = 2
    /\ store.tracks[1].muted /\ store.tracks[1].solo
    /\ ~store.tracks[2].muted /\ ~store.tracks[2].solo
    /\ Audible(GetMixConfig(store)) = {1}


(***************************************************************************)
(* FileUpload.handleFile with any file (SpecFile)                          *)
(***************************************************************************)
\* Names in ASCII, and names with letters outside it: x.\u00D6GG,
\* \u00C9T\u00C9.MP3, x.\u212A (the Kelvin sign, whose lower case is k),
\* x.\u0130, x.mp\u03A3, x.\uD801\uDC00 (a Deseret capital) and
\* x.fla\u212A.
FileNameInputs ==
    { Units(n) : n \in
        { "talk.mp3", "a.WAV", "b.m4a", "c.Flac", "d.ogg", "e.aac", "x.tar.mp3", ".mp3",
          "Song.OGG", "v.AAC", "mp3", "WAV", "notes.txt", "talk.mp3.exe", "talk.", "talk",
          "", "clip.mp4" } }
    \cup { Units("x.") \o <<214, 71, 71>>,
           <<201, 84, 201>> \o Units(".MP3"),
           Units("x.") \o <<8490>>,
           Units("x.") \o <<304>>,
           Units("x.mp") \o <<931>>,
           Units("x.") \o <<55297, 56320>>,
           Units("x.fla") \o <<8490>> }

FileSizeInputs == {0, MaxFileSize, MaxFileSize + 1}

FileInputs == {[name |-> n, size |-> z] : n \in FileNameInputs, z \in FileSizeInputs}

NextFile ==
    \/ \E i \in 1..MaxInst, file \in FileInputs : HandleFile(i, file)
    \/ \E i \in 1..MaxInst, err \in Errors : UploadOrStartFails(i, err)

SpecFile == InitPoll /\ [][NextFile]_vars

\* The extension as the claim reads it: the text after the last '.' of a
\* name that has one.
HasDot(name) == \E k \in 1..Len(name) : name[k] = 46

AfterLastDot(name) ==
    LET dot == CHOOSE k \in 1..Len(name) :
                   /\ name[k] = 46
                   /\ \A j \in (k + 1)..Len(name) : name[j] # 46
    IN  SubSeq(name, dot + 1, Len(name))

\* A name's text with the letters A..Z taken for a..z.
IgnoringCase(text) ==
    [k \in 1..Len(text) |-> IF text[k] \in 65..90 THEN text[k] + 32 ELSE text[k]]

Acceptable(file) ==
    /\ HasDot(file.name)
    /\ IgnoringCase(AfterLastDot(file.name))
          \in {Units(e) : e \in {"mp3", "wav", "m4a", "flac", "ogg", "aac"}}
    /\ file.size <= 524288000

\* C12: handleFile starts an upload exactly for a file whose name has an
\* extension (the text after its last '.') that is, ignoring case, one of
\* mp3, wav, m4a, flac, ogg, aac and whose size is at most 500 MB; for such
\* a file it clears the validation error; for any other file it sets a
\* validation error and starts no upload.
C12_OnlyValidFilesUploaded ==
    [][ \A i \in 1..MaxInst, file \in FileInputs :
          HandleFile(i, file) =>
             IF Acceptable(file)
             THEN /\ inst'[i].pc = "upload"
                  /\ inst'[i].validationError = NULL
                  /\ store'.uploadedFile = Some(file)
             ELSE /\ inst'[i].pc = "idle"
                  /\ inst'[i].validationError # NULL
                  /\ store' = store ]_vars


(***************************************************************************)
(* More claims about the upload flow (SpecPoll)                            *)
(***************************************************************************)
\* startAnalysis is in flight only for the job the upload of the same call
\* returned, which the server holds and has not started.
StartOnlyAfterUpload ==
    \A i \in 1..MaxInst :
        inst[i].pc = "start" =>
            /\ inst[i].job \in 1..Len(sjob)
            /\ sjob[inst[i].job].phase = 1
            /\ \A j \in 1..MaxInst : (j # i /\ inst[j].pc = "start") => inst[j].job # inst[i].job

\* Status requests exist, and the interval runs, only for started jobs.
PollOnlyAfterStart ==
    /\ \A k \in 1..Len(polls) : sjob[polls[k].job].phase >= 2
    /\ \A i \in 1..MaxInst : inst[i].pollingRef = "live" => sjob[inst[i].pollJob].phase >= 2

PendingUntilStarted ==
    \A i \in 1..MaxInst : inst[i].pc = "start" => store.status = "pending"

UploadAndStartSteps ==
    \A i \in 1..MaxInst :
        /\ (\E types \in PollTrackLists : UploadSucceeds(i, types)) =>
              /\ inst[i].pc = "upload" /\ inst'[i].pc = "start"
              /\ inst'[i].job = Len(sjob')
              /\ store'.jobId = JobIdNames[inst'[i].job]
              /\ store'.status = "pending"
        /\ StartSucceeds(i) =>
              /\ store'.status = "processing"
              /\ polls' = Append(polls, NewPoll(inst[i].job, i))

\* C13: startAnalysis is called only after the upload succeeded, with the
\* job id the upload returned; the first status request of a job is issued
\* only after startAnalysis succeeded for it; the store status is 'pending'
\* from the upload's success until the start's success and 'processing'
\* right after the start's success.
C13_UploadThenStartThenPoll ==
    /\ [](StartOnlyAfterUpload /\ PollOnlyAfterStart /\ PendingUntilStarted)
    /\ [][UploadAndStartSteps]_vars


\* C15: in every state of the store after an event was handled, status
\* 'failed' comes with a non-empty error message, whether the failure was
\* reported by a status response or by the upload or the start request, and
\* also while a later upload is under way.
C15_FailedHasMessage ==
    store.status = "failed" => ~Falsy(store.error)

\* C19: when the upload or the start request fails, uploadAndAnalyze ends
\* with status 'failed', with error the server detail, else the error's
\* message, else 'An error occurred' (never empty), with isUploading false
\* and without a status request or an interval; isUploading is false
\* whenever no uploadAndAnalyze call of the instance is running.
C19_UploadFailureHandled ==
    /\ [](\A i \in 1..MaxInst : inst[i].isUploading <=> inst[i].pc # "idle")
    /\ [][ \A i \in 1..MaxInst, err \in Errors :
             UploadOrStartFails(i, err) =>
                /\ store'.status = "failed"
                /\ store'.error = (IF err.detail # NULL /\ err.detail # "" THEN err.detail
                                   ELSE IF err.message # NULL /\ err.message # ""
                                        THEN err.message
                                        ELSE "An error occurred")
                /\ store'.error # NULL /\ store'.error # ""
                /\ ~inst'[i].isUploading /\ inst'[i].pc = "idle"
                /\ inst'[i].pollingRef = "null"
                /\ polls' = polls
         ]_vars

\* The start request of an uploaded job failed with a server detail: the
\* store holds the job id, 'failed' and the detail, nothing polls.
C19_Witness ==
    /\ store.status = "failed"
    /\ store.jobId = "j1"
    /\ store.error = "Job not found"
    /\ polls = <<>>
    /\ \A i \in 1..MaxInst : ~inst[i].isUploading /\ inst[i].pollingRef = "null"
    /\ Len(sjob) = 1 /\ sjob[1].phase = 1

\* C20: when the store holds a job whose analysis was started and that was
\* not cancelled or reset, and no status request of it is in flight and no
\* interval is set to issue one, the store status is 'complete' or 'failed'.
C20_NoPollMeansTerminal ==
    \A n \in 1..Len(sjob) :
        ( /\ store.jobId = JobIdNames[n]
          /\ JobIdNames[n] \notin dels
          /\ sjob[n].phase >= 2
          /\ \A k \in 1..Len(polls) : polls[k].job # n
          /\ \A i \in 1..MaxInst : ~(inst[i].pollingRef = "live" /\ inst[i].pollJob = n) )
        => store.status \in Terminal

\* The fields cancelAnalysis writes.
CancelFields(s) == <<s.jobId, s.status, s.progress, s.currentStep, s.result, s.uploadedFile>>

\* C21: after Start Over and a new uploadAndAnalyze (the store holds the
\* file of the new call), the end of cancelAnalysis, which runs when the
\* delete request settles, leaves jobId, status, progress, currentStep,
\* result and uploadedFile of the new job as they are.
C21_StartOverKeepsNewJob ==
    [][ \A n \in 1..MaxJobs, ok \in BOOLEAN :
          (DeleteSettles(JobIdNames[n], ok) /\ store.uploadedFile # None)
             => CancelFields(store') = CancelFields(store) ]_vars

(***************************************************************************)
(* More claims about the store (SpecStore)                                 *)
(***************************************************************************)
HasSpeaker(tracks) == \E i \in 1..Len(tracks) : tracks[i].type = "speaker"

FirstSpeaker(tracks) ==
    CHOOSE i \in 1..Len(tracks) :
        /\ tracks[i].type = "speaker"
        /\ \A j \in 1..(i - 1) : tracks[j].type # "speaker"

\* C14: after setResult(result) with a result that has a speaker track, the
\* speaker track with the lowest index has isMain and no other track has,
\* wherever the non-speaker tracks stand in the list.
C14_FirstSpeakerIsMain ==
    [][ \A result \in ResultInputs :
          (DoSetResult(result) /\ HasSpeaker(result[1].tracks)) =>
             \A i \in 1..Len(store'.tracks) :
                store'.tracks[i].isMain <=> (i = FirstSpeaker(result[1].tracks)) ]_vars


(***************************************************************************)
(* More claims about the results view (SpecUI)                             *)
(***************************************************************************)
\* C16: every preview request in flight asks for start_time 0 and for
\* min(60, result.duration_seconds) seconds, so its window
\* [start_time, start_time + duration) lies within [0, job duration].
C16_PreviewWindowInJob ==
    player.previewReq # None =>
        LET req == player.previewReq[1]
            jobDuration == store.result[1].duration_seconds
        IN  /\ req.start_time = 0
            /\ req.duration = (IF jobDuration < 6000 THEN jobDuration ELSE 6000)
            /\ 0 <= req.start_time
            /\ req.duration >= 0
            /\ req.start_time + req.duration <= jobDuration

\* A preview request for a job shorter than 60 s.
C16_Witness ==
    /\ player.previewReq # None
    /\ store.result[1].duration_seconds = 4550
    /\ player.previewReq[1].duration = 4550


(***************************************************************************)
(* ProcessingStatus: the step display                                      *)
(***************************************************************************)
StepLabels == <<"Upload", "Separate", "Diarize", "Finalize">>

\* The `done` prop of each ProcessingStep.
StepDone(s, k) ==
    CASE k = 1 -> s.progress > 0
      [] k = 2 -> s.progress >= 40
      [] k = 3 -> s.progress >= 80
      [] k = 4 -> s.progress = 100

\* The `active` prop of each ProcessingStep.
StepActive(s, k) ==
    CASE k = 1 -> s.status = "processing" /\ s.progress < 10
      [] k = 2 -> \/ s.status = "separating"
                  \/ (s.status = "processing" /\ s.progress >= 10 /\ s.progress < 40)
      [] k = 3 -> \/ s.status = "diarizing"
                  \/ (s.status = "processing" /\ s.progress >= 40 /\ s.progress < 80)
      [] k = 4 -> s.progress >= 80 /\ s.progress < 100

\* ProcessingStep: what the circle of a step shows, done before active.
StepShown(s, k) ==
    IF StepDone(s, k) THEN "done" ELSE IF StepActive(s, k) THEN "active" ELSE "idle"

\* ProcessingStatus renders the steps for a non-terminal status of an
\* uploaded file.
StepsVisible(s) ==
    /\ ~(s.uploadedFile = None \/ s.status = "pending")
    /\ s.status # "complete" /\ s.status # "failed"

\* Status and progress agree with the progress contract.
AgreesWithContract(s) ==
    \/ s.status = "processing" /\ s.progress \in 0..100
    \/ s.status = "separating" /\ s.progress \in 10..40
    \/ s.status = "diarizing" /\ s.progress \in 40..80

\* C17: for a non-terminal status and a progress that agree with the
\* progress contract, exactly one of the steps Upload, Separate, Diarize,
\* Finalize is shown in progress (active and not done), every step before it
\* is shown done and every step after it is neither done nor active.
C17_OneStepInProgress ==
    (StepsVisible(store) /\ AgreesWithContract(store)) =>
        \E k \in 1..Len(StepLabels) :
            /\ StepActive(store, k) /\ ~StepDone(store, k)
            /\ \A j \in 1..(k - 1) : StepDone(store, j)
            /\ \A j \in (k + 1)..Len(StepLabels) : ~StepDone(store, j) /\ ~StepActive(store, j)


\* The store and its track list differ at most in one field of the tracks
\* with the given id.
OnlyTrackFieldChanged(s, s2, trackId, field) ==
    /\ [s2 EXCEPT !.tracks = s.tracks] = s
    /\ Len(s2.tracks) = Len(s.tracks)
    /\ \A i \in 1..Len(s.tracks) :
          IF s.tracks[i].id = trackId
          THEN [s2.tracks[i] EXCEPT ![field] = s.tracks[i][field]] = s.tracks[i]
          ELSE s2.tracks[i] = s.tracks[i]

\* C18: toggleTrackMute, toggleTrackSolo and setTrackVolume change only the
\* muted, solo or volume field of the tracks with the given id (the flag is
\* inverted); all else in the store stays, and with an id no track has the
\* store stays as a whole; toggling mute or solo twice gives the state back.
C18_TrackActionsFrame ==
    /\ [](\A trackId \in TrackIdInputs :
            /\ ToggleTrackMute(ToggleTrackMute(store, trackId), trackId) = store
            /\ ToggleTrackSolo(ToggleTrackSolo(store, trackId), trackId) = store)
    /\ [][ \A trackId \in TrackIdInputs :
             /\ DoToggleTrackMute(trackId) =>
                   /\ OnlyTrackFieldChanged(store, store', trackId, "muted")
                   /\ \A i \in 1..Len(store.tracks) :
                         store.tracks[i].id = trackId =>
                            store'.tracks[i].muted = ~store.tracks[i].muted
             /\ DoToggleTrackSolo(trackId) =>
                   /\ OnlyTrackFieldChanged(store, store', trackId, "solo")
                   /\ \A i \in 1..Len(store.tracks) :
                         store.tracks[i].id = trackId =>
                            store'.tracks[i].solo = ~store.tracks[i].solo
             /\ \A volume \in VolumeInputs :
                   DoSetTrackVolume(trackId, volume) =>
                      OnlyTrackFieldChanged(store, store', trackId, "volume")
             /\ (~HasTrack(trackId) /\ ( \/ DoToggleTrackMute(trackId)
                                         \/ DoToggleTrackSolo(trackId)
                                         \/ \E volume \in VolumeInputs :
                                               DoSetTrackVolume(trackId, volume) ))
                   => store' = store
         ]_vars

\* Two soloed tracks, one of them also muted and turned down, and changed
\* settings outside the track list.
C18_Witness ==
    /\ Len(store.tracks) = 2
    /\ store.tracks[1].solo /\ store.tracks[2].solo
    /\ store.tracks[1].muted /\ ~store.tracks[2].muted
    /\ store.tracks[1].volume = 50 /\ store.tracks[2].volume = 100
    /\ store.outputFormat = "mp3"


(***************************************************************************)
(* The track controls of the results view over the life of a job           *)
(* (SpecTracks)                                                            *)
(***************************************************************************)
TrackUiLists == { <<"speaker", "speaker", "noise">>, <<"noise", "speaker">>, <<"speaker", "other">> }

TrackUiIds == {"t1", "t2", "t3"}

\* The controls tried: mute and set-as-main on every track, solo on the
\* first, the volume slider on the second.
SoloUiIds == {"t1"}
VolumeUiIds == {"t2"}
VolumePercents == {0, 50, 200}

\* TrackItem: isSpeaker
IsSpeakerTrack(trackId) ==
    \E i \in 1..Len(store.tracks) :
        store.tracks[i].id = trackId /\ store.tracks[i].type = "speaker"

\* TrackItem: the solo button.
ClickSolo(trackId) ==
    /\ TrackShown(trackId)
    /\ StoreAct(ToggleTrackSolo(store, trackId))

\* TrackItem: the volume slider, 0 to 200 percent.
SlideVolume(trackId, percent) ==
    /\ TrackShown(trackId)
    /\ percent \in 0..200
    /\ StoreAct(SetTrackVolume(store, trackId, percent))

\* TrackItem: the set-as-main button, rendered for speaker tracks only.
ClickSetMain(trackId) ==
    /\ TrackShown(trackId) /\ IsSpeakerTrack(trackId)
    /\ StoreAct(SetMainSpeaker(store, trackId))

\* TrackManager: the Reset All button.
ClickResetAll ==
    /\ ResultsShown
    /\ StoreAct(ResetAllTracks(store))

MaxTrackJobs == 2

\* The whole life of a job: the upload flow with a server whose analysis
\* finds any of the track lists, and the track controls of the results.
\* Within MaxTrackJobs jobs every interval is cleared by the render that
\* follows startAnalysis (FileUpload unmounts), so none ever fires.
NextTracks ==
    \/ \E i \in 1..MaxInst, file \in Files : PickFile(i, file)
    \/ \E i \in 1..MaxInst, types \in TrackUiLists :
          Len(sjob) < MaxTrackJobs /\ UploadSucceeds(i, types)
    \/ \E i \in 1..MaxInst, err \in Errors : UploadOrStartFails(i, err)
    \/ \E i \in 1..MaxInst : StartSucceeds(i)
    \/ \E n \in 1..MaxTrackJobs : ServerAdvance(n)
    \/ \E k \in 1..MaxPolls : ServerAnswersPoll(k)
    \/ \E k \in 1..MaxPolls : PollDelivered(k)
    \/ StartOver
    \/ \E jobId \in {JobIdNames[n] : n \in 1..MaxTrackJobs}, ok \in BOOLEAN :
          DeleteSettles(jobId, ok)
    \/ \E trackId \in TrackUiIds : ClickMute(trackId)
    \/ \E trackId \in SoloUiIds : ClickSolo(trackId)
    \/ \E trackId \in VolumeUiIds, percent \in VolumePercents : SlideVolume(trackId, percent)
    \/ \E trackId \in TrackUiIds : ClickSetMain(trackId)
    \/ ClickResetAll

SpecTracks == InitPoll /\ [][NextTracks]_vars

\* C22: in every store state the UI can reach (a result from a status
\* response, the buttons of a track, Reset All, Start Over) a track with
\* isMain has type 'speaker'.
C22_MainIsSpeaker ==
    \A i \in 1..Len(store.tracks) :
        store.tracks[i].isMain => store.tracks[i].type = "speaker"

\* The second of two speakers was made main, next to a noise track.
C22_Witness ==
    /\ Len(store.tracks) = 3
    /\ store.tracks[2].isMain /\ store.tracks[2].type = "speaker"
    /\ ~store.tracks[1].isMain
    /\ store.tracks[3].type = "noise" /\ ~store.tracks[3].isMain

\* C23: tracks is empty when result is null; otherwise tracks has the ids of
\* result.tracks in the same order.
C23_TracksMatchResult ==
    IF store.result = None
    THEN store.tracks = <<>>
    ELSE /\ Len(store.tracks) = Len(store.result[1].tracks)
         /\ \A i \in 1..Len(store.tracks) :
               store.tracks[i].id = store.result[1].tracks[i].id

\* A result is held and its tracks were changed through the buttons.
C23_Witness ==
    /\ store.result # None
    /\ Len(store.result[1].tracks) = 3
    /\ store.tracks[3].muted /\ store.tracks[1].solo
    /\ store.tracks[2].volume = 50
    /\ store.tracks[2].isMain


(***************************************************************************)
(* Claims about Reset All (SpecStore)                                      *)
(***************************************************************************)
\* C24: resetAllTracks gives every track the muted, solo, volume and isMain
\* that setResult gave it for the result held (false, false, 1.0, isMain
\* only for a speaker at index 0), sets mainSpeakerBoostDb to 3.0 and
\* noiseReductionLevel to 0, leaves everything else in the store, and a
\* second resetAllTracks changes nothing.
C24_ResetAllRestoresDefaults ==
    [][ DoResetAllTracks =>
          /\ store'.tracks = SetResult(store, store.result).tracks
          /\ \A i \in 1..Len(store'.tracks) :
                /\ ~store'.tracks[i].muted /\ ~store'.tracks[i].solo
                /\ store'.tracks[i].volume = 100
                /\ store'.tracks[i].isMain <=> (i = 1 /\ store'.tracks[i].type = "speaker")
          /\ store'.mainSpeakerBoostDb = 300
          /\ store'.noiseReductionLevel = 0
          /\ [store' EXCEPT !.tracks = store.tracks,
                            !.mainSpeakerBoostDb = store.mainSpeakerBoostDb,
                            !.noiseReductionLevel = store.noiseReductionLevel] = store
          /\ ResetAllTracks(store') = store' ]_vars

\* A store in which Reset All has everything to put back: flags, volume,
\* main speaker, boost and noise level all differ from the defaults, and
\* the settings it has to leave differ from theirs.
C24_Witness ==
    /\ Len(store.tracks) = 2
    /\ store.tracks[1].muted /\ store.tracks[1].solo /\ store.tracks[1].volume = 0
    /\ store.tracks[1].type = "speaker" /\ ~store.tracks[1].isMain
    /\ store.tracks[2].isMain
    /\ store.mainSpeakerBoostDb = 1500
    /\ store.noiseReductionLevel = 150
    /\ store.outputFormat = "mp3" /\ ~store.normalize


(***************************************************************************)
(* Export in the results view, with Start Over (SpecExport)                *)
(***************************************************************************)
OutputFormats == {"wav", "mp3", "flac"}

\* AudioPlayer: the format buttons.
SelectFormat(format) ==
    /\ ResultsShown
    /\ StoreAct(SetOutputFormat(store, format))

NextExport ==
    \/ \E format \in OutputFormats : SelectFormat(format)
    \/ ClickNormalize
    \/ ClickPlayPause
    \/ PreviewSucceeds
    \/ \E err \in Errors : PreviewFails(err)
    \/ ClickExport
    \/ ExportSucceeds
    \/ \E err \in Errors : ExportFails(err)
    \/ StartOver
    \/ \E jobId \in {"j1", "j2"}, ok \in BOOLEAN : DeleteSettles(jobId, ok)
    \/ \E k \in 1..MaxDetached : DetachedExportSucceeds(k)
    \/ \E k \in 1..MaxDetached, err \in Errors : DetachedExportFails(k, err)
    \/ \E k \in 1..MaxDetached : DetachedPreviewSucceeds(k)
    \/ \E k \in 1..MaxDetached, err \in Errors : DetachedPreviewFails(k, err)

SpecExport == InitUI /\ [][NextExport]_vars

\* C25: while an export request is in flight the store's isExporting and
\* the hook's isExporting are both true; when no exportAudio call is
\* running (none was made, or each has returned after success, after a
\* failed request or for want of a job id) both are false.
C25_ExportingFlags ==
    IF player.exportReq # None \/ \E k \in 1..Len(player.detached) : DetachedIs(k, "export")
    THEN store.isExporting /\ player.isExporting
    ELSE ~store.isExporting /\ ~player.isExporting


(***************************************************************************)
(* Claims about export and preview without a job id (SpecUI)               *)
(***************************************************************************)
\* C26: with a null jobId exportAudio sends no request, sets error to
\* 'No job to export' and changes nothing else in the store; generatePreview
\* sends no request, sets error to 'No job to preview', changes nothing else
\* in the store and returns null (the player keeps no preview); neither sets
\* its in-progress flag.
C26_NoJobNoRequest ==
    [][ /\ (store.jobId = NULL /\ ClickExport) =>
              /\ store' = [store EXCEPT !.error = "No job to export"]
              /\ player'.exportReq = None
              /\ ~player'.isExporting /\ ~store'.isExporting
        /\ (store.jobId = NULL /\ (ClickPlayPause \/ ClickRefresh)) =>
              /\ store' = [store EXCEPT !.error = "No job to preview"]
              /\ player'.previewReq = None
              /\ ~player'.isGenerating
              /\ player'.previewUrl = NULL /\ ~player'.hasGeneratedPreview
      ]_vars

\* The results of a job are shown, the store holds no job id, and the play
\* button was pressed.
C26_Witness ==
    /\ ResultsShown
    /\ store.jobId = NULL
    /\ store.error = "No job to preview"
    /\ player.previewReq = None /\ player.exportReq = None


====
